---- MODULE Spec2Model ----
(***************************************************************************)
(* A model of server.py: the class, fee, student and invoice handlers of   *)
(* the school backend, each a read-modify-write cycle over JSON documents  *)
(* kept as whole files on a remote FTP server.                             *)
(*                                                                         *)
(* A handler is modelled as the sequence of its FTP exchanges: one action  *)
(* per exchange that reads or writes the remote store, so that requests    *)
(* served by different server processes interleave exactly where the code  *)
(* lets them.  Inside one server process the handlers are coroutines of    *)
(* one event loop: a handler that never awaits (every ftplib handler)      *)
(* keeps the loop from its first line to its return.                       *)
(*                                                                         *)
(* Strings that the code transforms (class names, file names) are          *)
(* sequences of tokens; a token is a letter, a blank or the extension.     *)
(***************************************************************************)
EXTENDS Integers, Sequences, FiniteSets, TLC

(***************************************************************************)
(* Bounds of the model.                                                    *)
(***************************************************************************)
\* Requests started in one behaviour.
MaxOps == 3
\* FTP exchanges that the environment lets fail in one behaviour.
MaxFaults == 1
\* The longest class name, in tokens, that normalize_class_name is applied to.
MaxLen == 3

(***************************************************************************)
(* Strings.                                                                *)
(***************************************************************************)
Blank == " "
Ext == ".json"
ExtUpper == ".JSON"

\* str.lower(), token by token.
LowerTok(t) == CASE t = "A" -> "a"
                 [] t = ExtUpper -> Ext
                 [] OTHER -> t

Lower(s) == [i \in 1..Len(s) |-> LowerTok(s[i])]

RECURSIVE StripLeft(_)
StripLeft(s) == IF s # <<>> /\ Head(s) = Blank THEN StripLeft(Tail(s)) ELSE s

RECURSIVE StripRight(_)
StripRight(s) == IF s # <<>> /\ s[Len(s)] = Blank
                 THEN StripRight(SubSeq(s, 1, Len(s) - 1))
                 ELSE s

\* str.strip()
Strip(s) == StripRight(StripLeft(s))

\* name.endswith('.json')
EndsWithExt(s) == s # <<>> /\ s[Len(s)] = Ext

\* The place of a token in the order of Python's string comparison; no token
\* is the beginning of another, so strings compare as their token sequences.
TokenRank(t) ==
    CASE t = " " -> 1
      [] t = ".JSON" -> 2
      [] t = ".json" -> 3
      [] t = "A" -> 4
      [] t = "a" -> 5
      [] t = "fees" -> 6
      [] t = "invoice_records" -> 7

\* s < t for Python strings.
RECURSIVE Before(_, _)
Before(s, t) ==
    IF t = <<>> THEN FALSE
    ELSE IF s = <<>> THEN TRUE
    ELSE IF Head(s) = Head(t) THEN Before(Tail(s), Tail(t))
    ELSE TokenRank(Head(s)) < TokenRank(Head(t))

\* classes.sort()
RECURSIVE Sorted(_)
Sorted(names) ==
    IF names = {} THEN <<>>
    ELSE LET least == CHOOSE x \in names : \A y \in names : ~Before(y, x)
         IN  <<least>> \o Sorted(names \ {least})

\* file[:-5].lower()
ClassNameOf(file) == Lower(SubSeq(file, 1, Len(file) - 1))

\* A normalisation that forgets to lower-case.
NormalizeNoLower(class_name) ==
    LET name == Strip(class_name)
    IN  IF EndsWithExt(name) THEN SubSeq(name, 1, Len(name) - 1) ELSE name

\* normalize_class_name: strip, lower, drop one trailing ".json".
normalize_class_name(class_name) ==
    LET name == Lower(Strip(class_name))
    IN  IF EndsWithExt(name) THEN SubSeq(name, 1, Len(name) - 1) ELSE name

\* f"{normalized_name}.json"
FileName(name) == Append(name, Ext)

FeesFile == <<"fees", Ext>>
LedgerFile == <<"invoice_records", Ext>>

(***************************************************************************)
(* JSON objects: functions from keys to values; {} is the empty function.  *)
(***************************************************************************)
EmptyDoc == << >>

Has(d, k) == k \in DOMAIN d

\* dict.get(k, default)
Get(d, k, default) == IF k \in DOMAIN d THEN d[k] ELSE default

\* d[k] = v
Put(d, k, v) == [x \in DOMAIN d \cup {k} |-> IF x = k THEN v ELSE d[x]]

\* del d[k]
Del(d, k) == [x \in DOMAIN d \ {k} |-> d[x]]

\* dict.update(other)
Update(d, other) ==
    [x \in DOMAIN d \cup DOMAIN other |-> IF x \in DOMAIN other THEN other[x] ELSE d[x]]

(***************************************************************************)
(* Documents.                                                              *)
(***************************************************************************)
\* create_empty_class_file: the roster create_class uploads.
create_empty_class_file == EmptyDoc

\* ensure_students_key, on a decoded JSON object.
ensure_students_key(class_data) ==
    IF Has(class_data, "students") THEN class_data ELSE Put(class_data, "students", EmptyDoc)

\* The record add_student inserts.  Of the personal fields (father, phone,
\* email, ...), which the handlers copy and never compute with, "phone"
\* stands for all.
NewStudent(total_fees, phone) ==
    [totalfees |-> total_fees, feespaid |-> 0, feesremaining |-> total_fees,
     concession |-> 0, phone |-> phone]

\* A balance that leaves the concession out.
RemainingNoConcession(student) ==
    Get(student, "totalfees", 0) - Get(student, "feespaid", 0)

\* total_fees - concession - fees_paid, each read with .get(key, 0).
Remaining(student) ==
    Get(student, "totalfees", 0) - Get(student, "concession", 0) - Get(student, "feespaid", 0)

\* A collection that recomputes the balance and forgets the payment.
CollectForgets(student, amount) ==
    Put(student, "feesremaining", Remaining(student))

\* A collection that overwrites the amount paid so far.
CollectOverwrite(student, amount) ==
    LET paid == Put(student, "feespaid", amount)
    IN  Put(paid, "feesremaining", Remaining(paid))

\* collect_student_fee on the record: feespaid grows by the amount, feesremaining is recomputed.
CollectApply(student, amount) ==
    LET paid == Put(student, "feespaid", Get(student, "feespaid", 0) + amount)
    IN  Put(paid, "feesremaining", Remaining(paid))

\* update_student_concession on the record.
ConcessionApply(student, concession) ==
    LET conc == Put(student, "concession", concession)
    IN  Put(conc, "feesremaining", Remaining(conc))

\* The update mapping names one of the three fee fields.
TouchesFees(updates) ==
    Has(updates, "totalfees") \/ Has(updates, "feespaid") \/ Has(updates, "concession")

\* update_student on the record: merge, then recompute if a fee field was named.
UpdateApply(student, updates) ==
    LET merged == Update(student, updates)
    IN  IF TouchesFees(updates)
        THEN Put(merged, "feesremaining", Remaining(merged))
        ELSE merged

\* A total that forgets the laboratory fees.
TotalNoLab(tuition_fees, lab_fees, miscellaneous_fees) ==
    tuition_fees + miscellaneous_fees

\* set_fee_structure's total.
TotalFees(tuition_fees, lab_fees, miscellaneous_fees) ==
    tuition_fees + lab_fees + miscellaneous_fees

\* The entry set_fee_structure stores for a class.
FeeEntry(name, tuition_fees, lab_fees, miscellaneous_fees) ==
    [class_name |-> name, tuition_fees |-> tuition_fees, lab_fees |-> lab_fees,
     miscellaneous_fees |-> miscellaneous_fees,
     total_fees |-> TotalFees(tuition_fees, lab_fees, miscellaneous_fees)]

\* What get_class_total_fees finds in a decoded fees.json: it normalises the
\* name it is given before the lookup.
LookupTotalFees(fees_data, class_name) ==
    LET normalized_name == normalize_class_name(class_name)
        class_fees == Get(Get(fees_data, "class_fees", EmptyDoc), normalized_name, EmptyDoc)
    IN  Get(class_fees, "total_fees", 0)

\* A counter that always starts over.
NextInvoiceReset(invoice_data) == 1

\* What get_next_invoice_number finds in a decoded invoice_records.json.
NextInvoiceOf(invoice_data) == Get(invoice_data, "next_invoice_number", 1)

\* f"INV-{invoice_number:05d}"
InvoiceTag(invoice_number) == <<"INV-", invoice_number>>

\* The invoice record collect_student_fee builds.
Invoice(invoice_number, student_id, class, amount) ==
    [invoice_number |-> InvoiceTag(invoice_number), student_name |-> student_id,
     class |-> class, amount_paid |-> amount]

\* The document save_invoice_record starts from when the ledger cannot be read.
NewLedger == [invoices |-> << >>, next_invoice_number |-> 1]

\* An append that leaves the counter alone.
AppendNoCount(invoice_data, invoice) ==
    [invoice_data EXCEPT !["invoices"] = Append(@, invoice)]

\* save_invoice_record on the decoded ledger (which has an "invoices" key).
AppendInvoice(invoice_data, invoice) ==
    LET appended == [invoice_data EXCEPT !["invoices"] = Append(@, invoice)]
    IN  Put(appended, "next_invoice_number", Get(appended, "next_invoice_number", 1) + 1)

(***************************************************************************)
(* Inputs of the requests.                                                 *)
(***************************************************************************)
\* Spellings of class names a request may carry.
PlainNames == { <<"a">>, <<Blank, "A", Blank>>, <<Blank, "A", ExtUpper>>, <<"a", Ext, Ext>> }

StudentIds == {"s1", "s2"}
\* amount: int, of any sign.
Amounts == {-1, 0, 1, 2}
Concessions == {0, 1}
Phones == {7}
\* (tuition_fees, lab_fees, miscellaneous_fees) of a SetFeeRequest.
FeeParts == { <<3, 1, 0>>, <<5, 0, 2>> }
\* Update mappings of an UpdateStudentRequest.
UpdateMaps == { [totalfees |-> 4], [feespaid |-> 1, feesremaining |-> 9],
                [concession |-> 1], [feesremaining |-> 9], [phone |-> 8] }

Ops == {"create_class", "delete_class", "set_fee_structure", "delete_fee_structure",
        "add_student", "update_student", "collect_student_fee",
        "update_student_concession", "get_students", "get_all_classes"}

\* A request: the fields an operation does not read keep these values.
BlankRequest ==
    [op |-> "", class_name |-> << >>, student_id |-> "", amount |-> 0,
     generate_invoice |-> FALSE, concession |-> 0, updates |-> EmptyDoc,
     tuition_fees |-> 0, lab_fees |-> 0, miscellaneous_fees |-> 0, phone |-> 0]

RequestsFor(c) ==
    { [BlankRequest EXCEPT !.op = o, !.class_name = c] :
        o \in {"create_class", "delete_class", "delete_fee_structure", "get_students"} }
    \cup
    { [BlankRequest EXCEPT !.op = "set_fee_structure", !.class_name = c,
          !.tuition_fees = f[1], !.lab_fees = f[2], !.miscellaneous_fees = f[3]] :
        f \in FeeParts }
    \cup
    { [BlankRequest EXCEPT !.op = "add_student", !.class_name = c, !.student_id = s,
          !.phone = ph] : s \in StudentIds, ph \in Phones }
    \cup
    { [BlankRequest EXCEPT !.op = "update_student", !.class_name = c, !.student_id = s,
          !.updates = u] : s \in StudentIds, u \in UpdateMaps }
    \cup
    { [BlankRequest EXCEPT !.op = "collect_student_fee", !.class_name = c,
          !.student_id = s, !.amount = a, !.generate_invoice = g] :
        s \in StudentIds, a \in Amounts, g \in BOOLEAN }
    \cup
    { [BlankRequest EXCEPT !.op = "update_student_concession", !.class_name = c,
          !.student_id = s, !.concession = k] : s \in StudentIds, k \in Concessions }

Requests(names) ==
    UNION { RequestsFor(c) : c \in names } \cup { [BlankRequest EXCEPT !.op = "get_all_classes"] }

\* The requests clients send: every operation on the class names above.
PlainWorkload == Requests(PlainNames)

\* The requests of the concurrent deployments: one class, one student.
ConcurrentWorkload ==
    { r \in Requests({<<"a">>}) :
        /\ r.student_id \in {"", "s1"}
        /\ r.op = "collect_student_fee" => r.amount \in {1, 2}
        /\ r.op = "update_student_concession" => r.concession = 1
        /\ r.op = "update_student" => r.updates = [totalfees |-> 4]
        /\ r.op = "set_fee_structure" => r.tuition_fees = 3 }

\* Class names that are also the names of the fee document and of the ledger.
SharedNames == { <<"a">>, <<"fees">>, <<"invoice_records">> }

\* The requests of the deployment whose clients use those names: one student.
SharedWorkload ==
    { r \in Requests(SharedNames) :
        /\ r.student_id \in {"", "s1"}
        /\ r.op = "collect_student_fee" => r.amount = 1
        /\ r.op = "update_student_concession" => r.concession = 1
        /\ r.op = "update_student" => r.updates = [totalfees |-> 4]
        /\ r.op = "set_fee_structure" => r.tuition_fees = 3 }

Workload(kind) ==
    CASE kind = "one class" -> ConcurrentWorkload
      [] kind = "shared names" -> SharedWorkload
      [] OTHER -> PlainWorkload

(***************************************************************************)
(* State.                                                                  *)
(***************************************************************************)
Procs == {1, 2}
Workers == {1, 2}

VARIABLES
    files,      \* files[dir][file name]: the decoded content of each remote file
    baseDir,    \* "none": /htdocs is missing; "parent": only BASE_PATH is; "ready"
    pc,         \* pc[p]: the exchange request slot p is at, "idle" or "done"
    req,        \* req[p]: the request slot p serves
    loc,        \* loc[p]: the handler's local variables
    resp,       \* resp[p]: the response of the last request of slot p
    loop,       \* loop[w]: the requests (none or one) running on the event loop of process w
    env,        \* the deployment: faults, concurrency, routing, the requests clients send
    nreq,       \* requests started
    nfaults,    \* exchanges failed by the environment
    pre,        \* pre[p]: the remote store when slot p's request started
    prev,       \* the request completed before the current one, in short
    track,      \* per freshly added student: the fees collected and the concession set since
    sameRead,   \* two requests held the same invoice number, neither having saved it yet
    made,       \* per roster made by create_class and only added to since: the students added
    conn,       \* conn[p]: the connections slot p's request has opened and not closed
    timedOut,   \* timedOut[p]: an exchange of slot p's request ran into the socket timeout
    bytes,      \* bytes[path]: the JSON text of each file, for ftp_read and ftp_write
    wrote,      \* wrote[path]: the document of the last ftp_write to the path, if it completed
    call,       \* the last call of ftp_read or ftp_write and how it ended
    given,      \* a class name, and what normalize_class_name has made of it so far
    once,       \* what the first call of normalize_class_name returned
    calls       \* how often normalize_class_name has been applied to the name

handlerVars == <<files, baseDir, pc, req, loc, resp, loop, env, nreq, nfaults, pre, prev,
                 track, sameRead, made, conn, timedOut>>
storeVars == <<bytes, wrote, call>>
nameVars == <<given, once, calls>>
vars == <<handlerVars, storeVars, nameVars>>

BlankLoc == [cwd |-> "root", doc |-> EmptyDoc, total_fees |-> 0, invoice_number |-> 0,
             prior |-> EmptyDoc]

\* status: "success" or "error"; http: the status code; inv: the invoice number
\* returned; total, body: get_students' total_students and students.
BlankResp == [http |-> 0, status |-> "", inv |-> 0, total |-> 0, body |-> EmptyDoc]

Success == [BlankResp EXCEPT !.http = 200, !.status = "success"]

\* raise HTTPException(status_code=code)
HttpError(code) == [BlankResp EXCEPT !.http = code, !.status = "error"]

\* return {"status": "error", ...}: an error in the body of a 200 response
SoftError == [BlankResp EXCEPT !.http = 200, !.status = "error"]

Failed(r) == r.status = "error"

\* What is kept of the request completed before the current one: the invoice
\* number it returned (0: it returned none) and the roster file it created
\* (<< >>: it created none).
NoPrev == [inv |-> 0, created |-> << >>]

\* The deployment under which the handlers run.  credentials: FTP_USER and
\* FTP_PASS are set; anonymous: the FTP server lets a client without them log in.
Deployment(faults, inflight, worker, workload) ==
    [faults |-> faults, inflight |-> inflight, worker |-> worker, workload |-> workload,
     credentials |-> TRUE, anonymous |-> FALSE]

InitServer(deployment, dir) ==
    /\ files = [root |-> EmptyDoc, base |-> EmptyDoc]
    /\ baseDir = dir
    /\ pc = [p \in Procs |-> "idle"]
    /\ req = [p \in Procs |-> BlankRequest]
    /\ loc = [p \in Procs |-> BlankLoc]
    /\ resp = [p \in Procs |-> BlankResp]
    /\ loop = [w \in Workers |-> {}]
    /\ env = deployment
    /\ nreq = 0
    /\ nfaults = 0
    /\ pre = [p \in Procs |-> [files |-> [root |-> EmptyDoc, base |-> EmptyDoc], baseDir |-> dir]]
    /\ prev = NoPrev
    /\ track = EmptyDoc
    /\ sameRead = FALSE
    /\ made = EmptyDoc
    /\ conn = [p \in Procs |-> {}]
    /\ timedOut = [p \in Procs |-> FALSE]
    /\ bytes = EmptyDoc
    /\ wrote = EmptyDoc
    /\ call = [fn |-> "", path |-> << >>, raised |-> FALSE, result |-> <<"none", 0>>]

InitWith(deployment, dir) ==
    /\ InitServer(deployment, dir)
    /\ given = << >>
    /\ once = << >>
    /\ calls = 0

(***************************************************************************)
(* The remote store as a handler sees it.                                  *)
(***************************************************************************)
\* How an FTP exchange ends: "ok", or one of the failures in `kinds` while the
\* environment still has failures to give.  "conn": get_ftp_connection raises;
\* "perm": ftplib.error_perm; "io": any other ftplib or socket error; "pdf":
\* generate_receipt_pdf raises.
Faults(kinds) ==
    {"ok"} \cup (IF env.faults /\ nfaults < MaxFaults THEN kinds ELSE {})

\* The exchanges a handler starts with get_ftp_connection() into its own ftp
\* (get_students: with the client of ftp_read), and those made by a helper on
\* a connection of its own (get_class_total_fees, get_next_invoice_number,
\* save_invoice_record).
HandlerOpens == {"cc_list", "dc_list", "sf_retr", "df_retr", "as_retr", "us_retr", "uc_retr",
                 "cf_retr", "gc_list", "gs_exists"}
HelperOpens == {"as_fees", "cf_next", "cf_save_retr"}

\* ftp.login(FTP_USER, FTP_PASS) with both empty logs in as "anonymous", and
\* the client of ftp_read logs in with the empty strings; the server lets such
\* a client in or it does not.
LoginRefused(p) == ~env.credentials /\ ~env.anonymous

\* How the exchange slot p is at may end.  With a login that is refused every
\* exchange that starts with a connection fails there; get_all_classes tests
\* the credentials itself, before it connects.
Outcomes(p, kinds) ==
    IF LoginRefused(p) /\ pc[p] \in (HandlerOpens \cup HelperOpens) \ {"gc_list"}
    THEN {IF "conn" \in kinds THEN "conn" ELSE "io"}
    ELSE Faults(kinds)

\* ftp.cwd(BASE_PATH) succeeds.
CwdOk == baseDir = "ready"

\* The directory a handler works in, and BASE_PATH's state, after
\* "try: ftp.cwd(BASE_PATH) except error_perm: try: ftp.mkd(BASE_PATH); ftp.cwd(BASE_PATH)
\* except: pass": mkd makes one directory, so it fails under a missing parent
\* and the handler stays in the login directory.
EnterOrMake ==
    IF baseDir = "none"
    THEN [cwd |-> "root", baseDir |-> "none"]
    ELSE [cwd |-> "base", baseDir |-> "ready"]

\* The file is there to RETR, in directory dir.
Present(dir, file) == file \in DOMAIN files[dir]

\* STOR: the whole file is replaced.
Write(dir, file, doc) == [files EXCEPT ![dir] = Put(@, file, doc)]

\* DELE
Remove(dir, file) == [files EXCEPT ![dir] = Del(@, file)]

\* A membership test that never finds the file.
NeverListed(file, existing_files) == FALSE

\* f"{normalized_name}.json" in existing_files
Listed(file, existing_files) == file \in existing_files

(***************************************************************************)
(* What one exchange of a handler does: the handler's next position, its   *)
(* locals, the store and the response.                                     *)
(***************************************************************************)
Goto(p, next, l) ==
    [pc |-> next, loc |-> l, files |-> files, baseDir |-> baseDir, resp |-> resp[p]]

Reply(p, r) ==
    [pc |-> "done", loc |-> loc[p], files |-> files, baseDir |-> baseDir, resp |-> r]

\* The class a request names, normalised, and its roster file.
ClassOf(r) == normalize_class_name(r.class_name)
RosterOf(r) == FileName(ClassOf(r))

\* ---- create_class ----
CcList(p, o) ==
    LET name == ClassOf(req[p])
        at == EnterOrMake
    IN  IF name = << >> THEN Reply(p, HttpError(400))
        ELSE IF o \in {"conn", "io"} THEN Reply(p, HttpError(500))
        ELSE IF CwdOk /\ o = "ok" /\ Listed(FileName(name), DOMAIN files.base)
             THEN Reply(p, HttpError(409))
        \* error_perm from cwd or from nlst: taken for a missing directory
        ELSE [Goto(p, "cc_stor", [loc[p] EXCEPT !.cwd = at.cwd]) EXCEPT !.baseDir = at.baseDir]

CcStor(p, o) ==
    IF o = "ok"
    THEN [Reply(p, Success) EXCEPT
            !.files = Write(loc[p].cwd, RosterOf(req[p]), create_empty_class_file)]
    ELSE Reply(p, HttpError(500))

\* ---- delete_class ----
DcList(p, o) ==
    IF o \in {"conn", "io"} THEN Reply(p, HttpError(500))
    ELSE IF ~CwdOk \/ o = "perm" THEN Reply(p, HttpError(404))
    ELSE IF ~Listed(RosterOf(req[p]), DOMAIN files.base) THEN Reply(p, HttpError(404))
    ELSE Goto(p, "dc_dele", [loc[p] EXCEPT !.cwd = "base"])

DcDele(p, o) ==
    IF o = "io" THEN Reply(p, HttpError(500))
    ELSE IF o = "perm" \/ ~Present("base", RosterOf(req[p])) THEN Reply(p, HttpError(404))
    ELSE [Reply(p, Success) EXCEPT !.files = Remove("base", RosterOf(req[p]))]

\* ---- set_fee_structure ----
SfRetr(p, o) ==
    LET name == ClassOf(req[p])
        at == EnterOrMake
        all_fees == IF o = "ok" /\ Present(at.cwd, FeesFile)
                    THEN files[at.cwd][FeesFile]
                    ELSE [class_fees |-> EmptyDoc]
        entry == FeeEntry(name, req[p].tuition_fees, req[p].lab_fees,
                          req[p].miscellaneous_fees)
    IN  IF o \in {"conn", "io"} THEN Reply(p, HttpError(500))
        \* all_fees["class_fees"] raises KeyError
        ELSE IF ~Has(all_fees, "class_fees")
             THEN [Reply(p, HttpError(500)) EXCEPT !.baseDir = at.baseDir]
        ELSE [Goto(p, "sf_stor",
                   [loc[p] EXCEPT !.cwd = at.cwd,
                                  !.doc = Put(all_fees, "class_fees",
                                              Put(all_fees.class_fees, name, entry))])
              EXCEPT !.baseDir = at.baseDir]

SfStor(p, o) ==
    IF o = "ok"
    THEN [Reply(p, Success) EXCEPT !.files = Write(loc[p].cwd, FeesFile, loc[p].doc)]
    ELSE Reply(p, HttpError(500))

\* ---- delete_fee_structure ----
DfRetr(p, o) ==
    LET name == ClassOf(req[p])
        all_fees == files.base[FeesFile]
    IN  IF o \in {"conn", "io"} \/ ~CwdOk THEN Reply(p, HttpError(500))
        ELSE IF o = "perm" \/ ~Present("base", FeesFile) THEN Reply(p, HttpError(404))
        ELSE IF ~Has(Get(all_fees, "class_fees", EmptyDoc), name) THEN Reply(p, HttpError(404))
        ELSE Goto(p, "df_stor",
                  [loc[p] EXCEPT !.cwd = "base",
                                 !.doc = Put(all_fees, "class_fees",
                                             Del(all_fees.class_fees, name))])

DfStor(p, o) ==
    IF o = "ok"
    THEN [Reply(p, Success) EXCEPT !.files = Write("base", FeesFile, loc[p].doc)]
    ELSE Reply(p, HttpError(500))

\* ---- add_student ----
\* A duplicate test that never finds the student.
NeverEnrolled(class_data, student_id) == FALSE

\* request.student_id in class_data["students"]
AlreadyEnrolled(class_data, student_id) == Has(class_data.students, student_id)

\* get_class_total_fees(normalized_class): any failure gives 0.
AsFees(p, o) ==
    LET total_fees == IF o = "ok" /\ CwdOk /\ Present("base", FeesFile)
                      THEN LookupTotalFees(files.base[FeesFile], ClassOf(req[p]))
                      ELSE 0
    IN  Goto(p, "as_retr", [loc[p] EXCEPT !.total_fees = total_fees])

AsRetr(p, o) ==
    LET file == RosterOf(req[p])
        \* the bare except: a roster that cannot be read is taken for a new one
        class_data == IF o = "ok" /\ Present("base", file)
                      THEN ensure_students_key(files.base[file])
                      ELSE [students |-> EmptyDoc]
        student == NewStudent(loc[p].total_fees, req[p].phone)
    IN  IF o = "conn" \/ ~CwdOk THEN Reply(p, SoftError)
        ELSE IF AlreadyEnrolled(class_data, req[p].student_id) THEN Reply(p, SoftError)
        ELSE Goto(p, "as_stor",
                  [loc[p] EXCEPT !.cwd = "base",
                                 !.doc = Put(class_data, "students",
                                             Put(class_data.students, req[p].student_id,
                                                 student))])

AsStor(p, o) ==
    IF o = "ok"
    THEN [Reply(p, Success) EXCEPT !.files = Write("base", RosterOf(req[p]), loc[p].doc)]
    ELSE Reply(p, SoftError)

\* ---- the read that update_student, collect_student_fee and
\* update_student_concession start with, and what each makes of the record ----
\* A reply that reports success for a student that is not there.
MissingIgnored(p) == Reply(p, Success)

\* return {"status": "error", "message": f"Student '...' not found"}
StudentNotFound(p) == Reply(p, SoftError)

Mutated(rq, student) ==
    CASE rq.op = "update_student" -> UpdateApply(student, rq.updates)
      [] rq.op = "collect_student_fee" -> CollectApply(student, rq.amount)
      [] rq.op = "update_student_concession" -> ConcessionApply(student, rq.concession)

MutRetr(p, o, next) ==
    LET file == RosterOf(req[p])
        class_data == ensure_students_key(files.base[file])
        sid == req[p].student_id
    IN  IF o # "ok" \/ ~CwdOk \/ ~Present("base", file) THEN Reply(p, SoftError)
        ELSE IF ~Has(class_data.students, sid) THEN StudentNotFound(p)
        ELSE Goto(p, next,
                  [loc[p] EXCEPT !.cwd = "base",
                                 !.prior = class_data,
                                 !.total_fees = Get(class_data.students[sid], "totalfees", 0),
                                 !.doc = Put(class_data, "students",
                                             Put(class_data.students, sid,
                                                 Mutated(req[p], class_data.students[sid])))])

MutStor(p, o) ==
    IF o = "ok"
    THEN [Reply(p, Success) EXCEPT !.files = Write("base", RosterOf(req[p]), loc[p].doc)]
    ELSE Reply(p, SoftError)

\* ---- update_student ----
UsRetr(p, o) == MutRetr(p, o, "us_stor")
UsStor(p, o) == MutStor(p, o)

\* ---- update_student_concession ----
UcRetr(p, o) == MutRetr(p, o, "uc_stor")
UcStor(p, o) == MutStor(p, o)

\* ---- collect_student_fee ----
CfRetr(p, o) == MutRetr(p, o, "cf_stor")

\* The roster is uploaded before the invoice is made.
CfStor(p, o) ==
    IF o # "ok" THEN Reply(p, SoftError)
    ELSE IF ~req[p].generate_invoice THEN MutStor(p, o)
    ELSE [Goto(p, "cf_next", loc[p]) EXCEPT
            !.files = Write("base", RosterOf(req[p]), loc[p].doc)]

\* get_next_invoice_number (any failure gives 1), then generate_receipt_pdf.
CfNext(p, o) ==
    LET invoice_number == IF o \in {"ok", "pdf"} /\ CwdOk /\ Present("base", LedgerFile)
                          THEN NextInvoiceOf(files.base[LedgerFile])
                          ELSE 1
    IN  IF o = "pdf" THEN Reply(p, SoftError)
        ELSE Goto(p, "cf_save_retr", [loc[p] EXCEPT !.invoice_number = invoice_number])

\* save_invoice_record: a ledger that cannot be read is taken for a new one.
CfSaveRetr(p, o) ==
    LET invoice_data == IF o = "ok" /\ Present("base", LedgerFile)
                        THEN files.base[LedgerFile]
                        ELSE NewLedger
        invoice == Invoice(loc[p].invoice_number, req[p].student_id, ClassOf(req[p]),
                           req[p].amount)
    IN  IF o = "conn" \/ ~CwdOk THEN Reply(p, SoftError)
        \* invoice_data["invoices"] raises KeyError
        ELSE IF ~Has(invoice_data, "invoices") THEN Reply(p, SoftError)
        ELSE Goto(p, "cf_save_stor", [loc[p] EXCEPT !.doc = AppendInvoice(invoice_data, invoice)])

CfSaveStor(p, o) ==
    IF o = "ok"
    THEN [Reply(p, [Success EXCEPT !.inv = loc[p].invoice_number]) EXCEPT
            !.files = Write("base", LedgerFile, loc[p].doc)]
    ELSE Reply(p, SoftError)

\* ---- get_students (the handler registered first for GET /students/{class_name}):
\* ftp_read on the path built from the class name as given ----
GsExists(p, o) ==
    IF o # "ok" THEN Reply(p, SoftError)
    \* ftp_read returns {}, and the handler reports "No students found"
    ELSE IF ~(CwdOk /\ Present("base", FileName(req[p].class_name))) THEN Reply(p, SoftError)
    ELSE Goto(p, "gs_download", loc[p])

GsDownload(p, o) ==
    LET file == FileName(req[p].class_name)
        students_db == files.base[file]
    IN  IF o # "ok" \/ ~Present("base", file) THEN Reply(p, SoftError)
        \* "if not students_db"
        ELSE IF DOMAIN students_db = {} THEN Reply(p, SoftError)
        ELSE Reply(p, [Success EXCEPT !.total = Cardinality(DOMAIN students_db),
                                      !.body = students_db])

\* ---- get_all_classes: every *.json file of BASE_PATH, without the suffix,
\* lower-cased and sorted; a missing BASE_PATH is made, parents included ----
GcList(p, o) ==
    LET listed == IF o = "perm" \/ ~CwdOk THEN {} ELSE DOMAIN files.base
        classes == Sorted({ ClassNameOf(file) : file \in { f \in listed : EndsWithExt(f) } })
    IN  \* "if not FTP_USER or not FTP_PASS"
        IF ~env.credentials THEN Reply(p, HttpError(500))
        ELSE IF o \in {"conn", "io"} THEN Reply(p, HttpError(500))
        ELSE [Reply(p, [Success EXCEPT !.total = Len(classes), !.body = classes])
              EXCEPT !.baseDir = "ready"]

(***************************************************************************)
(* Scheduling and bookkeeping.                                             *)
(***************************************************************************)
\* The handlers that await their store exchanges (aioftp); the others call
\* ftplib, which blocks.
Awaits(op) == op = "get_students"

\* The first exchange of each handler.
FirstStep(op) ==
    CASE op = "create_class" -> "cc_list"
      [] op = "delete_class" -> "dc_list"
      [] op = "set_fee_structure" -> "sf_retr"
      [] op = "delete_fee_structure" -> "df_retr"
      [] op = "add_student" -> "as_fees"
      [] op = "update_student" -> "us_retr"
      [] op = "collect_student_fee" -> "cf_retr"
      [] op = "update_student_concession" -> "uc_retr"
      [] op = "get_students" -> "gs_exists"
      [] op = "get_all_classes" -> "gc_list"

\* Slot p's handler is the one its server process runs now: a handler that
\* awaits has given the event loop back and resumes when the loop is free; a
\* handler that blocks has kept the loop since it started.
Runs(p) ==
    loop[env.worker[p]] = (IF Awaits(req[p].op) THEN {} ELSE {p})

InFlight(p) == pc[p] \notin {"idle", "done"}

\* A completed request, in short.
Summary(rq, rs) ==
    [inv |-> rs.inv,
     created |-> IF rq.op = "create_class" /\ ~Failed(rs) THEN RosterOf(rq) ELSE << >>]

TrackKey(rq) == <<RosterOf(rq), rq.student_id>>

\* The fees collected from and the concession set for each student since it
\* was added, as long as nothing but successful collect_student_fee and
\* update_student_concession calls has addressed it.
TrackAfter(rq, rs) ==
    LET key == TrackKey(rq)
        ok == ~Failed(rs)
    IN  CASE rq.op = "add_student" /\ ok -> Put(track, key, [sum |-> 0, conc |-> 0])
          [] rq.op = "collect_student_fee" /\ ok /\ Has(track, key) ->
                [track EXCEPT ![key].sum = @ + rq.amount]
          [] rq.op = "collect_student_fee" /\ ~ok -> Del(track, key)
          [] rq.op = "update_student_concession" /\ ok /\ Has(track, key) ->
                [track EXCEPT ![key].conc = rq.concession]
          [] rq.op = "update_student" /\ ok -> Del(track, key)
          [] rq.op \in {"create_class", "delete_class"} /\ ok ->
                [k \in {j \in DOMAIN track : j[1] # RosterOf(rq)} |-> track[k]]
          [] OTHER -> track

\* The students added to each roster since create_class made it, as long as
\* nothing but successful add_student calls has written to it.
MadeAfter(rq, rs) ==
    LET file == RosterOf(rq)
        ok == ~Failed(rs)
    IN  CASE rq.op = "create_class" /\ ok -> Put(made, file, {})
          [] rq.op = "add_student" /\ ok /\ Has(made, file) ->
                [made EXCEPT ![file] = @ \cup {rq.student_id}]
          [] rq.op \in {"set_fee_structure", "delete_fee_structure"} ->
                Del(made, FeesFile)
          [] rq.op = "collect_student_fee" ->
                Del(Del(made, file), LedgerFile)
          [] rq.op \in {"delete_class", "update_student", "update_student_concession"} /\ ok ->
                Del(made, file)
          [] OTHER -> made

\* Another request holds the invoice number n: it has read it and not saved it.
HeldByOther(p, n) ==
    \E q \in Procs \ {p} :
        pc[q] \in {"cf_save_retr", "cf_save_stor"} /\ loc[q].invoice_number = n

\* The connections of slot p's request that are open after its exchange ended
\* with outcome o and result r.  "ftp": the handler's; "helper": the helper's;
\* "left": one that no variable of the code refers to any more.
\*   - get_ftp_connection: ftplib.FTP(FTP_HOST) connects, ftp.login may then
\*     raise; the except clauses raise HTTPException and the caller's ftp stays
\*     None, so its "finally: if ftp: ftp.quit()" does nothing.
\*   - "finally: try: ftp.quit() except: pass": quit sends QUIT and closes the
\*     socket after the reply; on a connection that broke it raises before.
\*   - the client of ftp_read is closed by its context manager.
ConnAfter(p, o, r) ==
    LET step == pc[p]
        label == IF step \in HandlerOpens THEN {"ftp"}
                 ELSE IF step \in HelperOpens THEN {"helper"} ELSE {}
        ends == (IF r.pc = "done" THEN {"ftp"} ELSE {})
                    \cup (IF r.pc # "cf_save_stor" THEN {"helper"} ELSE {})
        \* the failure is get_ftp_connection's: at connect, or at login
        refused == IF label # {} /\ step # "gs_exists" /\ o \in {"conn", "io"}
                   THEN { conn[p] \ ends, (conn[p] \ ends) \cup {"left"} }
                   ELSE {}
        \* the failure came later, or there was none
        held == conn[p] \cup label
        closed == { held \ ends }
        broken == IF o = "io" /\ (held \cap ends) # {} /\ req[p].op # "get_students"
                  THEN { (held \ ends) \cup {"left"} }
                  ELSE {}
    IN  IF o = "conn" THEN refused ELSE refused \cup closed \cup broken

\* ftplib.FTP(FTP_HOST, timeout=30): connecting and every later exchange
\* raise socket.timeout after 30 seconds; that is one of the errors of the
\* outcomes "conn" and "io", which the handlers catch as Exception.
MayTimeOut(p, o) ==
    IF o \in {"conn", "io"} /\ ~LoginRefused(p) THEN BOOLEAN ELSE {FALSE}

\* The exchange of slot p ends with outcome o and result r.
Commit(p, o, r) ==
    /\ pc' = [pc EXCEPT ![p] = r.pc]
    /\ loc' = [loc EXCEPT ![p] = r.loc]
    /\ files' = r.files
    /\ baseDir' = r.baseDir
    /\ resp' = [resp EXCEPT ![p] = r.resp]
    /\ loop' = IF r.pc = "done" THEN [loop EXCEPT ![env.worker[p]] = {}] ELSE loop
    /\ nfaults' = IF o = "ok" \/ LoginRefused(p) THEN nfaults ELSE nfaults + 1
    /\ track' = IF r.pc = "done" THEN TrackAfter(req[p], r.resp) ELSE track
    /\ made' = IF r.pc = "done" THEN MadeAfter(req[p], r.resp) ELSE made
    /\ sameRead' = (sameRead \/ (r.pc = "cf_save_retr" /\ HeldByOther(p, r.loc.invoice_number)))
    /\ \E c \in ConnAfter(p, o, r) : conn' = [conn EXCEPT ![p] = c]
    /\ \E t \in MayTimeOut(p, o) : timedOut' = [timedOut EXCEPT ![p] = @ \/ t]
    /\ UNCHANGED <<req, env, nreq, pre, prev, storeVars, nameVars>>

\* A client sends request r and server process env.worker[p] starts its handler.
Start(p) ==
    /\ p <= env.inflight
    /\ ~InFlight(p)
    /\ nreq < MaxOps
    /\ loop[env.worker[p]] = {}
    /\ \E r \in Workload(env.workload) :
        /\ req' = [req EXCEPT ![p] = r]
        /\ pc' = [pc EXCEPT ![p] = FirstStep(r.op)]
        /\ loop' = IF Awaits(r.op) THEN loop ELSE [loop EXCEPT ![env.worker[p]] = {p}]
    /\ loc' = [loc EXCEPT ![p] = BlankLoc]
    /\ resp' = [resp EXCEPT ![p] = BlankResp]
    /\ pre' = [pre EXCEPT ![p] = [files |-> files, baseDir |-> baseDir]]
    /\ prev' = IF pc[p] = "done" THEN Summary(req[p], resp[p]) ELSE prev
    /\ nreq' = nreq + 1
    /\ conn' = [conn EXCEPT ![p] = {}]
    /\ timedOut' = [timedOut EXCEPT ![p] = FALSE]
    /\ UNCHANGED <<files, baseDir, env, nfaults, track, sameRead, made, storeVars, nameVars>>

cc_list(p) == /\ pc[p] = "cc_list" /\ Runs(p)
              /\ \E o \in Outcomes(p, {"conn", "perm", "io"}) : Commit(p, o, CcList(p, o))
cc_stor(p) == /\ pc[p] = "cc_stor" /\ Runs(p)
              /\ \E o \in Outcomes(p, {"io"}) : Commit(p, o, CcStor(p, o))
dc_list(p) == /\ pc[p] = "dc_list" /\ Runs(p)
              /\ \E o \in Outcomes(p, {"conn", "perm", "io"}) : Commit(p, o, DcList(p, o))
dc_dele(p) == /\ pc[p] = "dc_dele" /\ Runs(p)
              /\ \E o \in Outcomes(p, {"perm", "io"}) : Commit(p, o, DcDele(p, o))
sf_retr(p) == /\ pc[p] = "sf_retr" /\ Runs(p)
              /\ \E o \in Outcomes(p, {"conn", "perm", "io"}) : Commit(p, o, SfRetr(p, o))
sf_stor(p) == /\ pc[p] = "sf_stor" /\ Runs(p)
              /\ \E o \in Outcomes(p, {"io"}) : Commit(p, o, SfStor(p, o))
df_retr(p) == /\ pc[p] = "df_retr" /\ Runs(p)
              /\ \E o \in Outcomes(p, {"conn", "perm", "io"}) : Commit(p, o, DfRetr(p, o))
df_stor(p) == /\ pc[p] = "df_stor" /\ Runs(p)
              /\ \E o \in Outcomes(p, {"io"}) : Commit(p, o, DfStor(p, o))
as_fees(p) == /\ pc[p] = "as_fees" /\ Runs(p)
              /\ \E o \in Outcomes(p, {"io"}) : Commit(p, o, AsFees(p, o))
as_retr(p) == /\ pc[p] = "as_retr" /\ Runs(p)
              /\ \E o \in Outcomes(p, {"conn", "io"}) : Commit(p, o, AsRetr(p, o))
as_stor(p) == /\ pc[p] = "as_stor" /\ Runs(p)
              /\ \E o \in Outcomes(p, {"io"}) : Commit(p, o, AsStor(p, o))
us_retr(p) == /\ pc[p] = "us_retr" /\ Runs(p)
              /\ \E o \in Outcomes(p, {"io"}) : Commit(p, o, UsRetr(p, o))
us_stor(p) == /\ pc[p] = "us_stor" /\ Runs(p)
              /\ \E o \in Outcomes(p, {"io"}) : Commit(p, o, UsStor(p, o))
uc_retr(p) == /\ pc[p] = "uc_retr" /\ Runs(p)
              /\ \E o \in Outcomes(p, {"io"}) : Commit(p, o, UcRetr(p, o))
uc_stor(p) == /\ pc[p] = "uc_stor" /\ Runs(p)
              /\ \E o \in Outcomes(p, {"io"}) : Commit(p, o, UcStor(p, o))
cf_retr(p) == /\ pc[p] = "cf_retr" /\ Runs(p)
              /\ \E o \in Outcomes(p, {"io"}) : Commit(p, o, CfRetr(p, o))
cf_stor(p) == /\ pc[p] = "cf_stor" /\ Runs(p)
              /\ \E o \in Outcomes(p, {"io"}) : Commit(p, o, CfStor(p, o))
cf_next(p) == /\ pc[p] = "cf_next" /\ Runs(p)
              /\ \E o \in Outcomes(p, {"io", "pdf"}) : Commit(p, o, CfNext(p, o))
cf_save_retr(p) == /\ pc[p] = "cf_save_retr" /\ Runs(p)
                   /\ \E o \in Outcomes(p, {"conn", "io"}) : Commit(p, o, CfSaveRetr(p, o))
cf_save_stor(p) == /\ pc[p] = "cf_save_stor" /\ Runs(p)
                   /\ \E o \in Outcomes(p, {"io"}) : Commit(p, o, CfSaveStor(p, o))
gs_exists(p) == /\ pc[p] = "gs_exists" /\ Runs(p)
                /\ \E o \in Outcomes(p, {"io"}) : Commit(p, o, GsExists(p, o))
gs_download(p) == /\ pc[p] = "gs_download" /\ Runs(p)
                  /\ \E o \in Outcomes(p, {"io"}) : Commit(p, o, GsDownload(p, o))
gc_list(p) == /\ pc[p] = "gc_list" /\ Runs(p)
              /\ \E o \in Outcomes(p, {"conn", "perm", "io"}) : Commit(p, o, GcList(p, o))

Next ==
    \E p \in Procs :
        \/ Start(p)
        \/ cc_list(p) \/ cc_stor(p)
        \/ dc_list(p) \/ dc_dele(p)
        \/ sf_retr(p) \/ sf_stor(p)
        \/ df_retr(p) \/ df_stor(p)
        \/ as_fees(p) \/ as_retr(p) \/ as_stor(p)
        \/ us_retr(p) \/ us_stor(p)
        \/ uc_retr(p) \/ uc_stor(p)
        \/ cf_retr(p) \/ cf_stor(p) \/ cf_next(p) \/ cf_save_retr(p) \/ cf_save_stor(p)
        \/ gs_exists(p) \/ gs_download(p)
        \/ gc_list(p)

(***************************************************************************)
(* The store primitives ftp_read and ftp_write, on the text of the files.  *)
(* Python values carry their type: <<"int", n>>, <<"str", s>>,             *)
(* <<"list", items>>, <<"dict", pairs>> with pairs the sequence of         *)
(* <<key, value>> in insertion order, <<"none", 0>>.  JSON text is a       *)
(* sequence of tokens <<kind, payload>>.                                   *)
(***************************************************************************)
PyInt(n) == <<"int", n>>
PyStr(s) == <<"str", s>>
PyList(items) == <<"list", items>>
PyDict(pairs) == <<"dict", pairs>>
PyNone == <<"none", 0>>

Punct(kind) == <<kind, 0>>

\* json.dumps(data, indent=2).encode()
RECURSIVE Dumps(_)
RECURSIVE DumpsItems(_)
RECURSIVE DumpsMembers(_)
Dumps(data) ==
    CASE data[1] = "int" -> << <<"number", data[2]>> >>
      [] data[1] = "str" -> << <<"string", data[2]>> >>
      [] data[1] = "list" -> <<Punct("[")>> \o DumpsItems(data[2]) \o <<Punct("]")>>
      [] data[1] = "dict" -> <<Punct("{")>> \o DumpsMembers(data[2]) \o <<Punct("}")>>

DumpsItems(items) ==
    IF Len(items) = 0 THEN << >>
    ELSE Dumps(Head(items))
            \o (IF Len(items) = 1 THEN << >> ELSE <<Punct(",")>> \o DumpsItems(Tail(items)))

DumpsMembers(pairs) ==
    IF Len(pairs) = 0 THEN << >>
    ELSE << <<"string", pairs[1][1]>>, Punct(":") >> \o Dumps(pairs[1][2])
            \o (IF Len(pairs) = 1 THEN << >> ELSE <<Punct(",")>> \o DumpsMembers(Tail(pairs)))

\* What a parse gives: a value and the text after it, or a JSONDecodeError.
DecodeError == [ok |-> FALSE, value |-> PyNone, rest |-> << >>]
Parsed(value, rest) == [ok |-> TRUE, value |-> value, rest |-> rest]

RECURSIVE ParseValue(_)
RECURSIVE ParseItems(_, _)
RECURSIVE ParseMembers(_, _)
ParseValue(text) ==
    IF Len(text) = 0 THEN DecodeError
    ELSE CASE text[1][1] = "number" -> Parsed(PyInt(text[1][2]), Tail(text))
           [] text[1][1] = "string" -> Parsed(PyStr(text[1][2]), Tail(text))
           [] text[1][1] = "[" ->
                IF Len(text) > 1 /\ text[2][1] = "]"
                THEN Parsed(PyList(<< >>), Tail(Tail(text)))
                ELSE ParseItems(Tail(text), << >>)
           [] text[1][1] = "{" ->
                IF Len(text) > 1 /\ text[2][1] = "}"
                THEN Parsed(PyDict(<< >>), Tail(Tail(text)))
                ELSE ParseMembers(Tail(text), << >>)
           [] OTHER -> DecodeError

ParseItems(text, items) ==
    LET item == ParseValue(text)
    IN  IF ~item.ok \/ Len(item.rest) = 0 THEN DecodeError
        ELSE CASE item.rest[1][1] = "]" ->
                    Parsed(PyList(Append(items, item.value)), Tail(item.rest))
               [] item.rest[1][1] = "," ->
                    ParseItems(Tail(item.rest), Append(items, item.value))
               [] OTHER -> DecodeError

ParseMembers(text, pairs) ==
    IF Len(text) < 3 \/ text[1][1] # "string" \/ text[2][1] # ":" THEN DecodeError
    ELSE LET member == ParseValue(Tail(Tail(text)))
         IN  IF ~member.ok \/ Len(member.rest) = 0 THEN DecodeError
             ELSE CASE member.rest[1][1] = "}" ->
                         Parsed(PyDict(Append(pairs, <<text[1][2], member.value>>)),
                                Tail(member.rest))
                    [] member.rest[1][1] = "," ->
                         ParseMembers(Tail(member.rest),
                                      Append(pairs, <<text[1][2], member.value>>))
                    [] OTHER -> DecodeError

\* json.loads(content.decode()): one value and nothing after it
Loads(text) ==
    LET parsed == ParseValue(text)
    IN  IF parsed.ok /\ Len(parsed.rest) = 0 THEN parsed ELSE DecodeError

\* Documents of the shapes the handlers store: a roster, the fee document,
\* the ledger, and the empty document.
StoreDocs ==
    { PyDict(<< >>),
      PyDict(<< <<"students",
                  PyDict(<< <<"s1", PyDict(<< <<"totalfees", PyInt(4)>>,
                                              <<"feespaid", PyInt(1)>>,
                                              <<"test", PyDict(<< >>)>> >>)>> >>)>> >>),
      PyDict(<< <<"class_fees",
                  PyDict(<< <<"a", PyDict(<< <<"tuition_fees", PyInt(3)>>,
                                             <<"total_fees", PyInt(4)>> >>)>> >>)>> >>),
      PyDict(<< <<"invoices",
                  PyList(<< PyDict(<< <<"invoice_number", PyStr("INV-1")>>,
                                      <<"amount", PyInt(1)>> >>),
                            PyDict(<< <<"invoice_number", PyStr("INV-2")>>,
                                      <<"amount", PyInt(2)>> >>) >>)>>,
                <<"next_invoice_number", PyInt(3)>> >>) }

StorePaths == { <<"a", Ext>>, FeesFile, LedgerFile }

\* An upload that adds to the file instead of replacing it.
UploadAppends(stored, path, text) ==
    Put(stored, path, Get(stored, path, << >>) \o text)

\* upload_stream(path): the text becomes the whole content of the file
Upload(stored, path, text) == Put(stored, path, text)

\* How an upload ends: it completes, or the transfer breaks and the file keeps
\* the part of the text that arrived (none of it, or all but the end).
UploadOutcomes == {"ok", "empty", "cut"}

Arrived(text, o) ==
    CASE o = "ok" -> text
      [] o = "empty" -> << >>
      [] o = "cut" -> SubSeq(text, 1, Len(text) - 1)

\* ftp_write(path, data)
ftp_write(path, data, o) ==
    /\ bytes' = Upload(bytes, path, Arrived(Dumps(data), o))
    /\ wrote' = IF o = "ok"
                THEN Put(wrote, path, [data |-> data, replaced |-> Has(bytes, path)])
                ELSE Del(wrote, path)
    /\ call' = [fn |-> "ftp_write", path |-> path, raised |-> o # "ok", result |-> PyNone]
    /\ UNCHANGED <<handlerVars, nameVars>>

\* ftp_read(path): {} when the path does not exist, else the decoded content;
\* a JSONDecodeError of json.loads leaves the function.
ftp_read(path) ==
    LET decoded == Loads(bytes[path])
    IN  /\ call' = IF ~Has(bytes, path)
                   THEN [fn |-> "ftp_read", path |-> path, raised |-> FALSE,
                         result |-> PyDict(<< >>)]
                   ELSE [fn |-> "ftp_read", path |-> path, raised |-> ~decoded.ok,
                         result |-> decoded.value]
        /\ UNCHANGED <<bytes, wrote, handlerVars, nameVars>>

StoreWrite == \E path \in StorePaths, data \in StoreDocs, o \in UploadOutcomes :
                  ftp_write(path, data, o)
StoreRead == \E path \in StorePaths : ftp_read(path)

NextStore == StoreWrite \/ StoreRead

(***************************************************************************)
(* normalize_class_name applied to a class name, and to its own result as  *)
(* add_student and get_class_total_fees do.                                *)
(***************************************************************************)
NameTokens == {Blank, "A", "a", Ext, ExtUpper}

\* Every class name of at most MaxLen tokens.
ClassNames == UNION { [1..n -> NameTokens] : n \in 0..MaxLen }

\* normalized_class = normalize_class_name(request.class_name) in add_student,
\* then normalized_name = normalize_class_name(class_name) in
\* get_class_total_fees, which is given normalized_class.
normalize_call ==
    /\ calls < 2
    /\ given' = normalize_class_name(given)
    /\ once' = IF calls = 0 THEN normalize_class_name(given) ELSE once
    /\ calls' = calls + 1
    /\ UNCHANGED <<handlerVars, storeVars>>

NextNames == normalize_call

(***************************************************************************)
(* Specifications.                                                         *)
(***************************************************************************)
\* Every request goes to the one server process.
OneProcess == [p \in Procs |-> 1]
\* Each request slot has a server process of its own.
TwoProcesses == [p \in Procs |-> p]

\* One request at a time, a store that answers; BASE_PATH is there, or its
\* parent is and the first handler that needs BASE_PATH makes it.
Init ==
    \E dir \in {"parent", "ready"} :
        InitWith(Deployment(FALSE, 1, OneProcess, "every class"), dir)
Spec == Init /\ [][Next]_vars

\* One request at a time, a store whose exchanges may fail.
InitFaults == InitWith(Deployment(TRUE, 1, OneProcess, "every class"), "ready")
SpecFaults == InitFaults /\ [][Next]_vars

\* One request at a time, a store that answers, clients that name classes
\* after the fee document and the ledger.
InitNames == InitWith(Deployment(FALSE, 1, OneProcess, "shared names"), "ready")
SpecNames == InitNames /\ [][Next]_vars

\* One request at a time on a fresh account: the parent of BASE_PATH is not
\* there yet.
InitBare == InitWith(Deployment(FALSE, 1, OneProcess, "every class"), "none")
SpecBare == InitBare /\ [][Next]_vars

\* One request at a time, served by a process started without FTP_USER and
\* FTP_PASS, on a server that lets "anonymous" in or does not.
InitNoCredentials ==
    \E anonymous \in BOOLEAN :
        InitWith([Deployment(FALSE, 1, OneProcess, "every class")
                    EXCEPT !.credentials = FALSE, !.anonymous = anonymous], "ready")
SpecNoCredentials == InitNoCredentials /\ [][Next]_vars

\* normalize_class_name on every class name of the bound.
InitNormalize ==
    /\ InitServer(Deployment(FALSE, 1, OneProcess, "every class"), "ready")
    /\ given \in ClassNames
    /\ once = << >>
    /\ calls = 0
SpecNormalize == InitNormalize /\ [][NextNames]_vars

\* Calls of ftp_read and ftp_write on a store that is empty at first.
InitStore == InitWith(Deployment(FALSE, 1, OneProcess, "every class"), "ready")
SpecStore == InitStore /\ [][NextStore]_vars

\* Two requests at a time, served by one server process or by two, a store
\* that answers.
InitConc ==
    \E worker \in {OneProcess, TwoProcesses} :
        InitWith(Deployment(FALSE, 2, worker, "one class"), "ready")
SpecConc == InitConc /\ [][Next]_vars

(***************************************************************************)
(* Properties.                                                             *)
(***************************************************************************)
\* Slot p's request was operation op and has returned success.
Succeeded(p, op) == pc[p] = "done" /\ req[p].op = op /\ ~Failed(resp[p])

\* The roster file a request addresses holds its student.
Enrolled(file, sid) ==
    /\ Present("base", file)
    /\ Has(files.base[file], "students")
    /\ Has(files.base[file].students, sid)

StoredStudent(file, sid) == files.base[file].students[sid]

Balanced(student) ==
    student.feesremaining = student.totalfees - student.concession - student.feespaid

\* The request is one of those that recompute feesremaining.
RecomputesFees(rq) ==
    \/ rq.op \in {"add_student", "collect_student_fee", "update_student_concession"}
    \/ rq.op = "update_student" /\ TouchesFees(rq.updates)

\* C1: after a successful add_student, collect_student_fee,
\* update_student_concession, or update_student naming one of totalfees, feespaid
\* and concession, the stored record of the student has
\* feesremaining = totalfees - concession - feespaid.
C1_RemainingRecomputed ==
    \A p \in Procs :
        (pc[p] = "done" /\ ~Failed(resp[p]) /\ RecomputesFees(req[p])) =>
            /\ Enrolled(RosterOf(req[p]), req[p].student_id)
            /\ Balanced(StoredStudent(RosterOf(req[p]), req[p].student_id))

\* A fee collection of 0 has followed update_student_concession(1) on a student
\* whose balance is totalfees - 1 - feespaid.
C1_Witness ==
    /\ Succeeded(1, "collect_student_fee")
    /\ req[1].amount = 0
    /\ Has(track, TrackKey(req[1]))
    /\ track[TrackKey(req[1])].conc = 1
    /\ Enrolled(RosterOf(req[1]), req[1].student_id)
    /\ LET student == StoredStudent(RosterOf(req[1]), req[1].student_id)
       IN  /\ student.concession = 1
           /\ student.feesremaining = student.totalfees - 1 - student.feespaid

Quiet == \A p \in Procs : ~InFlight(p)

\* C2: one request at a time, after any sequence of successful
\* collect_student_fee and update_student_concession calls on a freshly added
\* student, feespaid is the sum of the amounts collected and feesremaining is
\* totalfees - (the latest concession) - that sum.
C2_PaidIsSum ==
    Quiet =>
        \A key \in DOMAIN track :
            /\ Enrolled(key[1], key[2])
            /\ LET student == StoredStudent(key[1], key[2])
               IN  /\ student.feespaid = track[key].sum
                   /\ student.feesremaining =
                          student.totalfees - track[key].conc - track[key].sum

\* Two collections, of 1 and of 2, on a freshly added student: feespaid is 3.
C2_Witness ==
    /\ Succeeded(1, "collect_student_fee")
    /\ req[1].amount = 2
    /\ Has(track, TrackKey(req[1]))
    /\ track[TrackKey(req[1])].sum = 3
    /\ StoredStudent(RosterOf(req[1]), req[1].student_id).feespaid = 3

\* The entry set_fee_structure keeps for the class of a request.
HasFeeEntry(rq) ==
    /\ Present("base", FeesFile)
    /\ Has(files.base[FeesFile], "class_fees")
    /\ Has(files.base[FeesFile].class_fees, ClassOf(rq))

FeeEntryOf(rq) == files.base[FeesFile].class_fees[ClassOf(rq)]

\* C3: after a successful add_student into class C the new record has
\* feespaid = 0 and feesremaining = totalfees, and totalfees is the total_fees
\* of C's entry in the fee document, 0 only when C has no entry.
C3_AddedWithClassFees ==
    \A p \in Procs :
        Succeeded(p, "add_student") =>
            /\ Enrolled(RosterOf(req[p]), req[p].student_id)
            /\ LET student == StoredStudent(RosterOf(req[p]), req[p].student_id)
               IN  /\ student.feespaid = 0
                   /\ student.feesremaining = student.totalfees
                   /\ student.totalfees =
                          (IF HasFeeEntry(req[p]) THEN FeeEntryOf(req[p]).total_fees ELSE 0)

\* C4: one request at a time, a successful collect_student_fee with
\* generate_invoice that follows another one returns the invoice number of
\* that one plus 1.
C4_InvoiceNumbersConsecutive ==
    \A p \in Procs :
        (Succeeded(p, "collect_student_fee") /\ resp[p].inv # 0 /\ prev.inv # 0) =>
            resp[p].inv = prev.inv + 1

\* The second of two invoice-making collections returns 2 after 1.
C4_Witness ==
    /\ Succeeded(1, "collect_student_fee")
    /\ prev.inv = 1
    /\ resp[1].inv = 2

\* The invoice numbers of a ledger, in order.
Numbers(invoice_data) ==
    [i \in 1..Len(invoice_data.invoices) |-> invoice_data.invoices[i].invoice_number]

NoRepeat(seq) == \A i, j \in 1..Len(seq) : seq[i] = seq[j] => i = j

\* C5: in every state of the ledger, next_invoice_number is 1 plus the number
\* of invoices appended and no two invoices carry the same number, also when
\* exchanges with the store fail.
C5_LedgerNumbersUnique ==
    (Present("base", LedgerFile) /\ Has(files.base[LedgerFile], "invoices")) =>
        /\ NoRepeat(Numbers(files.base[LedgerFile]))
        /\ Get(files.base[LedgerFile], "next_invoice_number", 1) =
               Len(files.base[LedgerFile].invoices) + 1

\* Some number is on two invoices of the ledger.
LedgerRepeats ==
    /\ Present("base", LedgerFile)
    /\ Has(files.base[LedgerFile], "invoices")
    /\ ~NoRepeat(Numbers(files.base[LedgerFile]))

\* C6: two concurrent collect_student_fee requests with generate_invoice can
\* read the same next_invoice_number and both append an invoice with that
\* number (the witness); the ledger repeats a number only after two requests
\* held the same number at once.
C6_RepeatOnlyByRace == LedgerRepeats => sameRead

\* Both requests read next_invoice_number 1, both returned success with
\* invoice 1, and the ledger holds two invoices numbered 1.
C6_Witness ==
    /\ sameRead
    /\ Succeeded(1, "collect_student_fee")
    /\ Succeeded(2, "collect_student_fee")
    /\ resp[1].inv = 1
    /\ resp[2].inv = 1
    /\ Present("base", LedgerFile)
    /\ Numbers(files.base[LedgerFile]) = <<InvoiceTag(1), InvoiceTag(1)>>

\* feespaid of the request's student in the roster the handler read.
PriorPaid(p) == loc[p].prior.students[req[p].student_id].feespaid

\* Both slots have completed a collection on the same student, and both had
\* read the same roster.
BothCollectedFromSame(p, q) ==
    /\ p # q
    /\ Succeeded(p, "collect_student_fee")
    /\ Succeeded(q, "collect_student_fee")
    /\ TrackKey(req[p]) = TrackKey(req[q])
    /\ loc[p].prior = loc[q].prior

\* C7: when two collect_student_fee requests on one student have read the
\* same roster and both have written and reported success, the stored
\* feespaid is the one read plus the amount of one of them: the other
\* payment is lost.
C7_OnePaymentLost ==
    \A p, q \in Procs :
        BothCollectedFromSame(p, q) =>
            /\ Enrolled(RosterOf(req[p]), req[p].student_id)
            /\ StoredStudent(RosterOf(req[p]), req[p].student_id).feespaid
                   \in {PriorPaid(p) + req[p].amount, PriorPaid(p) + req[q].amount}

\* Payments of 1 and of 2, both reported as success, and a stored feespaid
\* that is not their sum.
C7_Witness ==
    /\ BothCollectedFromSame(1, 2)
    /\ req[1].amount = 1
    /\ req[2].amount = 2
    /\ PriorPaid(1) = 0
    /\ StoredStudent(RosterOf(req[1]), "s1").feespaid = 2

\* C8: a request waiting on an exchange with the store does not hold the
\* event loop of its server process.  (Every position of a request in flight is
\* an exchange with the store.)
C8_StoreWaitFreesLoop ==
    \A p \in Procs : InFlight(p) => p \notin loop[env.worker[p]]

Mutators == Ops \ {"get_students", "get_all_classes"}

\* C9: a mutator that reports a failure has left every remote document as it
\* was when the request started.
C9_FailureLeavesStore ==
    \A p \in Procs :
        (pc[p] = "done" /\ Failed(resp[p]) /\ req[p].op \in Mutators) =>
            /\ files = pre[p].files
            /\ baseDir = pre[p].baseDir

\* C10: a create_class that follows a successful create_class of the same
\* class, in any spelling, fails with 409 and leaves the store as it was.
C10_SecondCreateConflicts ==
    \A p \in Procs :
        (pc[p] = "done" /\ req[p].op = "create_class" /\ prev.created = RosterOf(req[p])) =>
            /\ resp[p].http = 409
            /\ files = pre[p].files

\* The class was created under one spelling and created again under another.
C10_Witness ==
    /\ pc[1] = "done"
    /\ req[1].op = "create_class"
    /\ req[1].class_name = <<Blank, "A", ExtUpper>>
    /\ prev.created = <<"a", Ext>>
    /\ resp[1].http = 409
    /\ Present("base", <<"a", Ext>>)

EnrolledBefore(p) ==
    /\ RosterOf(req[p]) \in DOMAIN pre[p].files.base
    /\ Has(pre[p].files.base[RosterOf(req[p])], "students")
    /\ Has(pre[p].files.base[RosterOf(req[p])].students, req[p].student_id)

\* C12: add_student with a student-id the roster already holds fails and
\* leaves every document, the roster and the record in it, as it was.
C12_DuplicateAddRejected ==
    \A p \in Procs :
        (pc[p] = "done" /\ req[p].op = "add_student" /\ EnrolledBefore(p)) =>
            /\ Failed(resp[p])
            /\ files = pre[p].files

\* A student with a payment on record has been added a second time.
C12_Witness ==
    /\ pc[1] = "done"
    /\ req[1].op = "add_student"
    /\ EnrolledBefore(1)
    /\ StoredStudent(RosterOf(req[1]), req[1].student_id).feespaid > 0
    /\ Failed(resp[1])

NeedsStudent == {"update_student", "collect_student_fee", "update_student_concession"}

\* C13: update_student, collect_student_fee and update_student_concession on a
\* roster that is absent, or that does not hold the student, fail and create
\* or modify no document.
C13_MissingStudentRejected ==
    \A p \in Procs :
        (pc[p] = "done" /\ req[p].op \in NeedsStudent /\ ~EnrolledBefore(p)) =>
            /\ Failed(resp[p])
            /\ files = pre[p].files

\* A collection for a student the existing roster does not hold has failed.
C13_Witness ==
    /\ pc[1] = "done"
    /\ req[1].op = "collect_student_fee"
    /\ req[1].student_id = "s2"
    /\ RosterOf(req[1]) \in DOMAIN pre[1].files.base
    /\ Has(pre[1].files.base[RosterOf(req[1])], "students")
    /\ Has(pre[1].files.base[RosterOf(req[1])].students, "s1")
    /\ ~EnrolledBefore(1)
    /\ Failed(resp[1])

\* The fee document held an entry for the request's class when the request started.
FeeEntryBefore(p) ==
    /\ FeesFile \in DOMAIN pre[p].files.base
    /\ Has(pre[p].files.base[FeesFile], "class_fees")
    /\ Has(pre[p].files.base[FeesFile].class_fees, ClassOf(req[p]))

RosterBefore(p) == RosterOf(req[p]) \in DOMAIN pre[p].files.base

\* The store of pre[p] without the roster of the request, and without the fee
\* entry of its class.
WithoutRoster(p) == [pre[p].files EXCEPT !.base = Del(@, RosterOf(req[p]))]
WithoutFeeEntry(p) ==
    [pre[p].files EXCEPT !.base[FeesFile].class_fees = Del(@, ClassOf(req[p]))]

\* C14: delete_class of an absent roster and delete_fee_structure of an absent
\* entry (or with no fee document) return 404 and change nothing; when the
\* target is there, that file or key is removed and nothing else changes.
C14_DeleteExactlyTarget ==
    \A p \in Procs :
        /\ (pc[p] = "done" /\ req[p].op = "delete_class") =>
               IF RosterBefore(p)
               THEN ~Failed(resp[p]) /\ files = WithoutRoster(p)
               ELSE resp[p].http = 404 /\ files = pre[p].files
        /\ (pc[p] = "done" /\ req[p].op = "delete_fee_structure") =>
               IF FeeEntryBefore(p)
               THEN ~Failed(resp[p]) /\ files = WithoutFeeEntry(p)
               ELSE resp[p].http = 404 /\ files = pre[p].files

\* The entries of the fee document.
FeeEntries ==
    IF Present("base", FeesFile) /\ Has(files.base[FeesFile], "class_fees")
    THEN files.base[FeesFile].class_fees
    ELSE EmptyDoc

\* C15: every entry of the fee document has
\* total_fees = tuition_fees + lab_fees + miscellaneous_fees.
C15_FeeTotalIsSum ==
    \A c \in DOMAIN FeeEntries :
        FeeEntries[c].total_fees =
            FeeEntries[c].tuition_fees + FeeEntries[c].lab_fees
                + FeeEntries[c].miscellaneous_fees

\* An entry with laboratory fees was set over an earlier entry of the class,
\* and another class's entry was deleted.
C15_Witness ==
    /\ Succeeded(1, "delete_fee_structure")
    /\ DOMAIN FeeEntries = {<<"a">>}
    /\ FeeEntries[<<"a">>].lab_fees = 1
    /\ FeeEntries[<<"a">>].total_fees = 4

\* The fee entries when the request of slot p started.
FeeEntriesBefore(p) ==
    IF FeesFile \in DOMAIN pre[p].files.base /\ Has(pre[p].files.base[FeesFile], "class_fees")
    THEN pre[p].files.base[FeesFile].class_fees
    ELSE EmptyDoc

\* C16: with a store that answers, set_fee_structure for class C succeeds,
\* class_fees[normalize(C)] holds the requested breakdown afterwards, and the
\* entry of every other class is as it was.
C16_SetFeeUpsertsOne ==
    \A p \in Procs :
        (pc[p] = "done" /\ req[p].op = "set_fee_structure") =>
            /\ ~Failed(resp[p])
            /\ DOMAIN FeeEntries = DOMAIN FeeEntriesBefore(p) \cup {ClassOf(req[p])}
            /\ FeeEntries[ClassOf(req[p])] =
                   FeeEntry(ClassOf(req[p]), req[p].tuition_fees, req[p].lab_fees,
                            req[p].miscellaneous_fees)
            /\ \A c \in DOMAIN FeeEntriesBefore(p) \ {ClassOf(req[p])} :
                   FeeEntries[c] = FeeEntriesBefore(p)[c]

\* The logical names of the class rosters in the store: the files of BASE_PATH
\* other than the fee document and the ledger, without their suffix.
RosterNames ==
    { ClassNameOf(file) : file \in DOMAIN files.base \ {FeesFile, LedgerFile} }

Ascending(seq) == \A i, j \in 1..Len(seq) : i < j => Before(seq[i], seq[j])

\* C20: get_all_classes returns, in ascending order, exactly the names of the
\* class rosters that exist, and total is their number.
C20_ListsExactlyRosters ==
    \A p \in Procs :
        (Succeeded(p, "get_all_classes") /\ files = pre[p].files) =>
            /\ { resp[p].body[i] : i \in 1..Len(resp[p].body) } = RosterNames
            /\ Ascending(resp[p].body)
            /\ resp[p].total = Cardinality(RosterNames)

\* C19: a read of a class under any spelling that normalises to the name of an
\* existing roster with students returns that roster, as every other
\* operation addresses it.
C19_SpellingsShareDocument ==
    \A p \in Procs :
        (pc[p] = "done" /\ req[p].op = "get_students" /\ files = pre[p].files
            /\ Present("base", RosterOf(req[p]))
            /\ DOMAIN files.base[RosterOf(req[p])] # {}) =>
            /\ ~Failed(resp[p])
            /\ resp[p].body = files.base[RosterOf(req[p])]

\* The text of the path is there and is a JSON document.
Decodable(path) == Has(bytes, path) /\ Loads(bytes[path]).ok

\* C17: ftp_read never raises, and returns the empty mapping for a path that
\* was never written and for a path whose bytes are not valid JSON.
C17_ReadIsTotal ==
    call.fn = "ftp_read" =>
        /\ ~call.raised
        /\ ~Decodable(call.path) => call.result = PyDict(<< >>)

\* C18: ftp_read of a path returns the document of the last ftp_write to it,
\* whatever the path held before that write.
C18_ReadReturnsWritten ==
    (call.fn = "ftp_read" /\ Has(wrote, call.path)) =>
        /\ ~call.raised
        /\ call.result = wrote[call.path].data

\* A ledger with two invoices was written over another document and read back.
C18_Witness ==
    /\ call.fn = "ftp_read"
    /\ ~call.raised
    /\ Has(wrote, call.path)
    /\ wrote[call.path].replaced
    /\ call.result = wrote[call.path].data
    /\ Len(call.result[2]) = 2
    /\ call.result[2][1][1] = "invoices"
    /\ Len(call.result[2][1][2][2]) = 2

\* C21: when create_class returns success, the empty roster document is in
\* BASE_PATH under the normalised class name, also when BASE_PATH or its
\* parent was missing before the call.
C21_CreatedRosterInBase ==
    \A p \in Procs :
        Succeeded(p, "create_class") =>
            /\ Present("base", RosterOf(req[p]))
            /\ files.base[RosterOf(req[p])] = create_empty_class_file

\* C22: when a handler has returned, every connection its request opened is
\* closed, on the paths that succeed, return early or fail; and a helper's
\* connection is open only while the helper runs.
C22_ConnectionsClosed ==
    \A p \in Procs :
        /\ ~InFlight(p) => conn[p] = {}
        /\ "helper" \in conn[p] => pc[p] = "cf_save_stor"

\* The exchanges that change the store: STOR and DELE.
Mutating == {"cc_stor", "dc_dele", "sf_stor", "df_stor", "as_stor", "us_stor", "uc_stor",
             "cf_stor", "cf_save_stor"}

\* C23: in a process started without credentials, the first operation, whichever
\* it is, reports an error and attempts no change of the store.
C23_NoCredentialsNoMutation ==
    (~env.credentials /\ nreq = 1) =>
        /\ files = [root |-> EmptyDoc, base |-> EmptyDoc]
        /\ \A p \in Procs :
            /\ pc[p] \notin Mutating
            /\ pc[p] = "done" => Failed(resp[p])

\* C24: a request one of whose store exchanges timed out ends with a failure
\* that its caller sees.
C24_TimeoutSurfaces ==
    \A p \in Procs :
        (pc[p] = "done" /\ timedOut[p]) => Failed(resp[p])

\* The HTTP status codes of the failure classes: bad input, not found,
\* conflict, store or internal failure.
FailureCodes == {400, 404, 409, 500}

\* C25: every failing operation answers with the HTTP status code of its
\* failure class, never with a success status code.
C25_FailureHasErrorStatus ==
    \A p \in Procs :
        (pc[p] = "done" /\ Failed(resp[p])) => resp[p].http \in FailureCodes

\* The rosters of BASE_PATH that hold students.
Rosters == { file \in DOMAIN files.base : Has(files.base[file], "students") }

\* C27: in every roster that successful add_student, update_student,
\* collect_student_fee and update_student_concession calls lead to, every student
\* has feesremaining = totalfees - concession - feespaid.
C27_EveryRecordBalanced ==
    \A file \in Rosters :
        \A sid \in DOMAIN files.base[file].students :
            Balanced(StoredStudent(file, sid))

\* The students of a roster file and the invoices of the ledger, in a store.
StudentsIn(store, file) ==
    IF Has(store.base, file) THEN Get(store.base[file], "students", EmptyDoc) ELSE EmptyDoc
InvoicesIn(store) ==
    IF Has(store.base, LedgerFile) THEN Get(store.base[LedgerFile], "invoices", << >>) ELSE << >>

\* Every entry of the earlier sequence is at its place in the later one.
IsPrefix(earlier, later) ==
    /\ Len(earlier) <= Len(later)
    /\ \A i \in 1..Len(earlier) : later[i] = earlier[i]

\* C28: add_student and save_invoice_record only add: after the call, however
\* it ended and whether or not the existing document could be read, every
\* student the roster had and every invoice the ledger had is still there,
\* unchanged.
C28_OnlyAdds ==
    \A p \in Procs :
        /\ (pc[p] = "done" /\ req[p].op = "add_student") =>
                LET before == StudentsIn(pre[p].files, RosterOf(req[p]))
                    after == StudentsIn(files, RosterOf(req[p]))
                IN  \A sid \in DOMAIN before : Has(after, sid) /\ after[sid] = before[sid]
        /\ (pc[p] = "done" /\ req[p].op = "collect_student_fee") =>
                IsPrefix(InvoicesIn(pre[p].files), InvoicesIn(files))

\* The operations on one class and its students.
ClassLevel == {"create_class", "delete_class", "add_student", "update_student",
               "collect_student_fee", "update_student_concession"}

\* The content of a file of BASE_PATH in a store; << >> when it is not there.
DocIn(store, file) == IF Has(store.base, file) THEN <<store.base[file]>> ELSE << >>

\* C29: a class-level operation, whatever the class name, leaves fees.json as
\* it was, and invoice_records.json too unless it is a fee collection that
\* saves an invoice; set_fee_structure and the saving of an invoice go on
\* succeeding among such operations.
C29_ClassOpsSpareSharedDocs ==
    \A p \in Procs :
        pc[p] = "done" =>
            /\ req[p].op \in ClassLevel =>
                    /\ DocIn(files, FeesFile) = DocIn(pre[p].files, FeesFile)
                    /\ ~(req[p].op = "collect_student_fee" /\ req[p].generate_invoice) =>
                            DocIn(files, LedgerFile) = DocIn(pre[p].files, LedgerFile)
            /\ req[p].op = "set_fee_structure" => ~Failed(resp[p])
            /\ (req[p].op = "collect_student_fee" /\ req[p].generate_invoice
                    /\ EnrolledBefore(p)) => ~Failed(resp[p])

\* C30: after create_class(C) and n successful add_student calls with distinct
\* student ids, nothing else having written to C, GET /students/C reports
\* total_students = n and the students mapping has exactly those n ids as keys.
C30_ReadReportsAdded ==
    \A p \in Procs :
        (/\ pc[p] = "done"
         /\ req[p].op = "get_students"
         /\ req[p].class_name = ClassOf(req[p])
         /\ Has(made, RosterOf(req[p]))) =>
            /\ resp[p].total = Cardinality(made[RosterOf(req[p])])
            /\ DOMAIN resp[p].body = made[RosterOf(req[p])]

\* C31: normalize_class_name is idempotent and its result has no blank at
\* either end, so that the key add_student looks up in the fee document (the
\* name normalised twice) is the key set_fee_structure stores (the name
\* normalised once).
C31_NormalizeIdempotent ==
    /\ calls >= 1 => Strip(given) = given
    /\ calls = 2 => given = once

\* The record of the student of slot p's request when the request started.
StudentBefore(p) == pre[p].files.base[RosterOf(req[p])].students[req[p].student_id]

\* C32: a successful collect_student_fee, whatever the amount, leaves feespaid
\* at least what it was; with an amount of 0 or less it does not lower
\* feespaid and does not raise feesremaining.
C32_PaidNeverDecreases ==
    \A p \in Procs :
        (Succeeded(p, "collect_student_fee") /\ EnrolledBefore(p)) =>
            LET student == StoredStudent(RosterOf(req[p]), req[p].student_id)
            IN  /\ student.feespaid >= StudentBefore(p).feespaid
                /\ req[p].amount <= 0 =>
                        student.feesremaining <= StudentBefore(p).feesremaining

====
